---- MODULE Spec2Model ----
(***************************************************************************)
(* Model of the H3 query engine (src/engine/h3_engine.py) and of the       *)
(* hierarchical predicate library (src/converter/predicates.py).           *)
(*                                                                         *)
(* A cell is the sequence <<base cell, digit 1, ..., digit r>>; its        *)
(* resolution is r.  The features table is fixed after ingest and the      *)
(* engine opens it read-only; every action is one call of an engine or     *)
(* library operation with its arguments drawn from the table.              *)
(***************************************************************************)
EXTENDS Integers, Sequences, FiniteSets, TLC

\* ------------------------------------------------------------- bounds
MaxRes == 2
NumBase == 1
Aperture == 2
NumFeatures == 2
MaxCells == 2
MaxArea == 8
MaxTarget == 2
MaxBatch == 2
TILE_CACHE_SIZE == 2
SESSION_TTL_SECONDS == 0
MaxTime == 1
NumSessionIds == 2

\* ------------------------------------------------------- H3 kernel
Resolutions == 0..MaxRes

MaxDigit == IF NumBase > Aperture THEN NumBase - 1 ELSE Aperture - 1

\* the cells of each resolution, tabulated
CellTable ==
    [r \in Resolutions |->
        {c \in [1..(r + 1) -> 0..MaxDigit] :
            c[1] < NumBase /\ \A i \in 2..(r + 1) : c[i] < Aperture}]

CellsAt(r) == IF r \in Resolutions THEN CellTable[r] ELSE {}

AllCells == UNION {CellsAt(r) : r \in Resolutions}

\* SQL NULL in a cell column / an H3 error value
NullCell == << >>

get_resolution(c) == Len(c) - 1

\* defined for res <= resolution_of(c); the H3 error (E_RES_MISMATCH) otherwise
cell_to_parent(c, res) ==
    IF res >= 0 /\ res <= get_resolution(c) THEN SubSeq(c, 1, res + 1) ELSE NullCell

\* defined for res >= resolution_of(c): the Aperture^(res - resolution_of(c))
\* descendants of c at res; empty on the H3 error
cell_to_children(c, res) ==
    IF res >= get_resolution(c) /\ res <= MaxRes
    THEN {d \in CellsAt(res) : SubSeq(d, 1, Len(c)) = c}
    ELSE {}

H3ResMismatch(c, res) == res > get_resolution(c)

\* ----------------------------------------------------- feature table
Ids == 1..NumFeatures

CellSetsAt(r) == {s \in SUBSET CellsAt(r) : Cardinality(s) <= MaxCells}

\* a feature row: every cell of h3_cells has resolution h3_resolution
Rows ==
    UNION {[h3_resolution : {r}, h3_cells : CellSetsAt(r)] : r \in Resolutions}

Tables == [Ids -> Rows]

Min(S) == CHOOSE x \in S : \A y \in S : x <= y
Max(S) == CHOOSE x \in S : \A y \in S : x >= y

\* Python None (SQL NULL of an aggregate over no rows)
None == -1

\* ---------------------------------------------------------- relations
\* A relation with a cell column and duplicate rows is a bag: a function from
\* the cells present to the number of rows holding each.
EmptyBag == [c \in {} |-> 0]

BagCells(bag) == DOMAIN bag

\* SELECT DISTINCT cell
Distinct(bag) == [c \in DOMAIN bag |-> 1]

\* UNION ALL
UnionAll(b1, b2) ==
    [c \in (DOMAIN b1) \cup (DOMAIN b2) |->
        (IF c \in DOMAIN b1 THEN b1[c] ELSE 0) + (IF c \in DOMAIN b2 THEN b2[c] ELSE 0)]

\* SELECT UNNEST(h3_cells) FROM rows: one output row <<feature_id, cell>> per
\* cell of each selected feature row
Unnest(db, ids) == UNION {{<<i, c>> : c \in db[i].h3_cells} : i \in ids}

\* the cell column of SELECT f(cell) over the rows `pairs`, duplicates kept
BagOf(pairs, F(_)) ==
    [x \in {F(p[2]) : p \in pairs} |-> Cardinality({p \in pairs : F(p[2]) = x})]

\* SELECT UNNEST(h3_cell_to_children(cell, res)) over the rows `pairs`
BagOfChildren(pairs, res) ==
    LET kids == UNION {{<<p, d>> : d \in cell_to_children(p[2], res)} : p \in pairs}
    IN  [x \in {k[2] : k \in kids} |-> Cardinality({k \in kids : k[2] = x})]

\* x IN (SELECT cell ...) is true only for a non-NULL x equal to a row
SqlIn(x, S) == x # NullCell /\ x \in S

\* x NOT IN (SELECT cell ...) is true only when no row equals x and neither x
\* nor any row is NULL (or the subquery is empty)
SqlNotIn(x, S) == S = {} \/ (x # NullCell /\ NullCell \notin S /\ x \notin S)

\* --------------------------------------------------------- selections
\* An argument of an engine operation (FeatureSet): a WHERE string, modelled by
\* the set of feature_ids it selects, or the cell relation an earlier
\* union()/intersection() call returned.
NoBag == EmptyBag

FilterSel(ids) == [kind |-> "filter", ids |-> ids, cells |-> NoBag]
CellRel(bag)   == [kind |-> "cells", ids |-> {}, cells |-> bag]

\* outcomes of a call
RetBool(v)   == [status |-> "ok", bool |-> v, cells |-> NoBag]
RetCells(bag) == [status |-> "ok", bool |-> FALSE, cells |-> bag]
Raise        == [status |-> "raise", bool |-> FALSE, cells |-> NoBag]
NoRet        == [status |-> "none", bool |-> FALSE, cells |-> NoBag]

\* the FROM source of a selection: the feature rows it holds, or a relation
\* without the feature columns
to_table_expr(cond) ==
    IF cond.kind = "filter"
    THEN [schema |-> "features", ids |-> cond.ids, cells |-> NoBag]
    ELSE [schema |-> "cell", ids |-> {}, cells |-> cond.cells]

\* SELECT MIN(h3_resolution), MAX(h3_resolution) FROM expr
get_resolution_range(db, expr) ==
    IF expr.ids = {}
    THEN <<None, None>>
    ELSE <<Min({db[i].h3_resolution : i \in expr.ids}),
           Max({db[i].h3_resolution : i \in expr.ids})>>

\* a query that names h3_resolution or h3_cells fails to bind on a relation
\* that has only the cell column
BinderError(expr) == expr.schema # "features"

\* ----------------------------------------------------- H3Engine predicates
\* if min_a is None or min_b is None: return False
intersects_empty(min_a, min_b) == min_a = None \/ min_b = None

intersects_target_res_mut(min_a, min_b) == min_a
\* target_res = min(min_a, min_b)
intersects_target_res(min_a, min_b) == Min({min_a, min_b})

H3Engine_intersects(db, a, b) ==
    LET expr_a == to_table_expr(a)
        expr_b == to_table_expr(b)
    IN  IF BinderError(expr_a) \/ BinderError(expr_b)
        THEN Raise
        ELSE
          LET ra == get_resolution_range(db, expr_a)
              rb == get_resolution_range(db, expr_b)
          IN  IF intersects_empty(ra[1], rb[1])
              THEN RetBool(FALSE)
              ELSE
                LET target_res == intersects_target_res(ra[1], rb[1])
                    a_parents == BagCells(Distinct(BagOf(Unnest(db, expr_a.ids),
                                     LAMBDA c : cell_to_parent(c, target_res))))
                    b_parents == BagCells(Distinct(BagOf(Unnest(db, expr_b.ids),
                                     LAMBDA c : cell_to_parent(c, target_res))))
                    joined == {j \in a_parents \X b_parents :
                                  j[1] # NullCell /\ j[2] # NullCell /\ j[1] = j[2]}
                IN  RetBool(joined # {})

within_empty_mut(min_a, min_b) == min_b = None
\* if min_a is None or min_b is None: return False
within_empty(min_a, min_b) == min_a = None \/ min_b = None

within_target_res_mut(min_a, min_b) == min_a
\* target_res = min(min_a, min_b)
within_target_res(min_a, min_b) == Min({min_a, min_b})

H3Engine_within(db, a, b) ==
    LET expr_a == to_table_expr(a)
        expr_b == to_table_expr(b)
    IN  IF BinderError(expr_a) \/ BinderError(expr_b)
        THEN Raise
        ELSE
          LET ra == get_resolution_range(db, expr_a)
              rb == get_resolution_range(db, expr_b)
          IN  IF within_empty(ra[1], rb[1])
              THEN RetBool(FALSE)
              ELSE
                LET target_res == within_target_res(ra[1], rb[1])
                    a_cells == BagCells(Distinct(BagOf(Unnest(db, expr_a.ids),
                                   LAMBDA c : cell_to_parent(c, target_res))))
                    b_cells == BagCells(Distinct(BagOf(Unnest(db, expr_b.ids),
                                   LAMBDA c : cell_to_parent(c, target_res))))
                    count == Cardinality({c \in a_cells : SqlNotIn(c, b_cells)})
                IN  RetBool(count = 0)

\* return self.within(b, a)
H3Engine_contains(db, a, b) == H3Engine_within(db, b, a)

\* ------------------------------------------------- H3Engine set operations
intersection_fine_is_a_mut(max_a, max_b) == max_a <= max_b
\* if max_a >= max_b: fine_expr = expr_a
intersection_fine_is_a(max_a, max_b) == max_a >= max_b

intersection_target_res_mut(min_a, min_b) == Max({min_a, min_b})
\* target_res = min(min_a, min_b)
intersection_target_res(min_a, min_b) == Min({min_a, min_b})

H3Engine_intersection(db, a, b) ==
    LET expr_a == to_table_expr(a)
        expr_b == to_table_expr(b)
    IN  IF BinderError(expr_a) \/ BinderError(expr_b)
        THEN Raise
        ELSE
          LET ra == get_resolution_range(db, expr_a)
              rb == get_resolution_range(db, expr_b)
          IN  IF ra[1] = None \/ rb[1] = None
              THEN RetCells(EmptyBag)
              ELSE
                LET target_res == intersection_target_res(ra[1], rb[1])
                    finest_res == Max({ra[2], rb[2]})
                    fine_expr == IF intersection_fine_is_a(ra[2], rb[2])
                                 THEN expr_a ELSE expr_b
                    coarse_expr == IF intersection_fine_is_a(ra[2], rb[2])
                                   THEN expr_b ELSE expr_a
                    coarse_cells == BagCells(Distinct(BagOf(Unnest(db, coarse_expr.ids),
                                        LAMBDA c : cell_to_parent(c, target_res))))
                    intersection_raw ==
                        {f \in Unnest(db, fine_expr.ids) :
                            SqlIn(cell_to_parent(f[2], target_res), coarse_cells)}
                    at_finest == {f \in intersection_raw :
                                     db[f[1]].h3_resolution = finest_res}
                    coarser == {f \in intersection_raw :
                                   db[f[1]].h3_resolution < finest_res}
                IN  RetCells(Distinct(UnionAll(BagOf(at_finest, LAMBDA c : c),
                                               BagOfChildren(coarser, finest_res))))

union_dedup_mut(bag) == bag
\* SELECT DISTINCT cell FROM (...)
union_dedup(bag) == Distinct(bag)

\* WHERE h3_resolution < {max_res}
union_coarse_rows(db, ids, max_res) == {i \in ids : db[i].h3_resolution < max_res}

H3Engine_union(db, feature_set) ==
    LET expr == to_table_expr(feature_set)
    IN  IF BinderError(expr)
        THEN Raise
        ELSE
          LET rr == get_resolution_range(db, expr)
              min_res == rr[1]
              max_res == rr[2]
          IN  IF max_res = None
              THEN RetCells(EmptyBag)
              ELSE IF min_res = max_res
              THEN RetCells(union_dedup(BagOf(Unnest(db, expr.ids), LAMBDA c : c)))
              ELSE
                LET finest == {i \in expr.ids : db[i].h3_resolution = max_res}
                    coarse == union_coarse_rows(db, expr.ids, max_res)
                IN  RetCells(union_dedup(UnionAll(
                        BagOf(Unnest(db, finest), LAMBDA c : c),
                        BagOfChildren(Unnest(db, coarse), max_res))))

\* ------------------------------------------------------------ H3Engine.area
\* h3_cell_area(cell, unit): the children of a cell share its area
h3_cell_area(c) == Aperture ^ (MaxRes - get_resolution(c))

RECURSIVE SumArea(_, _)
\* SUM(h3_cell_area(cell)) over the rows of a relation, duplicates counted
SumArea(bag, todo) ==
    IF todo = {} THEN 0
    ELSE LET c == CHOOSE x \in todo : TRUE
         IN  bag[c] * h3_cell_area(c) + SumArea(bag, todo \ {c})

H3Engine_area(db, cell_set) ==
    IF cell_set.kind = "cells"
    THEN SumArea(cell_set.cells, BagCells(cell_set.cells))
    ELSE LET distinct_cells == Distinct(BagOf(Unnest(db, cell_set.ids), LAMBDA c : c))
         IN  SumArea(distinct_cells, BagCells(distinct_cells))


\* ------------------------------------------- hierarchical predicate library
\* position of a cell along the grid at its own resolution
RECURSIVE CellIndex(_)
CellIndex(c) ==
    IF Len(c) = 1 THEN c[1]
    ELSE CellIndex(SubSeq(c, 1, Len(c) - 1)) * Aperture + c[Len(c)]

\* h3.grid_disk(cell, k=1): the cell and its neighbours at its resolution
grid_disk(c) ==
    {d \in CellsAt(get_resolution(c)) :
        CellIndex(d) - CellIndex(c) \in {-1, 0, 1}}

normalize_to_coarser_resolution_mut(cells_a, cells_b, res_a, res_b) ==
    [raised |-> FALSE, a |-> cells_a, b |-> cells_b]
\* res_a, res_b stand for h3.get_resolution(next(iter(cells_a))) and
\* h3.get_resolution(next(iter(cells_b))): the resolution of the element the
\* set's iteration order yields first.  h3.cell_to_parent raises
\* H3ResMismatchError for a cell coarser than target_res, and the comprehension
\* is outside the try block.
normalize_to_coarser_resolution(cells_a, cells_b, res_a, res_b) ==
    IF cells_a = {} \/ cells_b = {}
    THEN [raised |-> FALSE, a |-> cells_a, b |-> cells_b]
    ELSE
      LET same == res_a = res_b
      IN  IF same
          THEN [raised |-> FALSE, a |-> cells_a, b |-> cells_b]
          ELSE
            LET target_res == Min({res_a, res_b})
                norm_a == IF res_a > target_res
                          THEN {cell_to_parent(c, target_res) : c \in cells_a}
                          ELSE cells_a
                norm_b == IF res_b > target_res
                          THEN {cell_to_parent(c, target_res) : c \in cells_b}
                          ELSE cells_b
                raised == \/ res_a > target_res
                             /\ \E c \in cells_a : H3ResMismatch(c, target_res)
                          \/ res_b > target_res
                             /\ \E c \in cells_b : H3ResMismatch(c, target_res)
            IN  [raised |-> raised, a |-> norm_a, b |-> norm_b]

predicates_intersects(cells_a, cells_b, res_a, res_b) ==
    LET n == normalize_to_coarser_resolution(cells_a, cells_b, res_a, res_b)
    IN  IF n.raised THEN Raise
        ELSE RetBool(Cardinality(n.a \cap n.b) > 0)

predicates_within(cells_a, cells_b, res_a, res_b) ==
    LET n == normalize_to_coarser_resolution(cells_a, cells_b, res_a, res_b)
    IN  IF n.raised THEN Raise
        ELSE RetBool(n.a \subseteq n.b)

predicates_contains_mut(cells_a, cells_b, res_a, res_b) ==
    LET n == normalize_to_coarser_resolution(cells_a, cells_b, res_a, res_b)
    IN  IF n.raised THEN Raise
        ELSE RetBool(n.a \subseteq n.b)
predicates_contains(cells_a, cells_b, res_a, res_b) ==
    LET n == normalize_to_coarser_resolution(cells_a, cells_b, res_a, res_b)
    IN  IF n.raised THEN Raise
        ELSE RetBool(n.b \subseteq n.a)

predicates_touches(cells_a, cells_b, res_a, res_b) ==
    LET hit == predicates_intersects(cells_a, cells_b, res_a, res_b)
    IN  IF hit.status = "raise" THEN Raise
        ELSE IF hit.bool THEN RetBool(FALSE)
        ELSE
          LET n == normalize_to_coarser_resolution(cells_a, cells_b, res_a, res_b)
              neighbors_a == (UNION {grid_disk(c) : c \in n.a}) \ n.a
          IN  RetBool(Cardinality(neighbors_a \cap n.b) > 0)

\* ------------------------------------------------------------ converter
\* H3_AVG_HEXAGON_AREA_M2[res]: the average cell area shrinks by the aperture
\* with every resolution
H3_AVG_HEXAGON_AREA_M2(res) == Aperture ^ (MaxRes - res)

\* h3.latlng_to_cell(lat, lng, resolution); a point is given by the finest cell
\* that holds it
latlng_to_cell(point, res) == cell_to_parent(point, res)

\* the first k cells of a resolution, by grid position
FirstCells(r, k) == {c \in CellsAt(r) : CellIndex(c) < k}

\* what h3shape_to_cells_experimental / grid_path_cells can return for one
\* part of a geometry at each resolution
Polyfills == [Resolutions -> UNION {{FirstCells(r, k) : k \in 0..MaxCells} : r \in Resolutions}]

\* one polygon, line or point: its cells at each resolution and its centroid
Parts ==
    {p \in [fill : Polyfills, centroid : CellsAt(MaxRes)] :
        \A r \in Resolutions : p.fill[r] \subseteq CellsAt(r)}

\* a part too small to cover any cell at any resolution
TinyParts == {p \in Parts : \A r \in Resolutions : p.fill[r] = {}}

Areas == 0..MaxArea

PolygonTypes == {"Polygon", "MultiPolygon"}

\* a Polygon is one part; a MultiPolygon is a part and a tiny part
Polygons ==
    {[type |-> "Polygon", area |-> a, parts |-> {p}] : a \in Areas, p \in Parts}
    \cup
    UNION {{[type |-> "MultiPolygon", area |-> a, parts |-> {p, q}] : a \in Areas, p \in Parts}
              : q \in TinyParts}

\* polygon.centroid: the centroid of the part holding the area
Centroid(g) ==
    LET big == {p \in g.parts : p \notin TinyParts}
    IN  IF big # {} THEN (CHOOSE p \in big : TRUE).centroid
        ELSE (CHOOSE p \in g.parts : TRUE).centroid

\* _polygon_to_h3_cells over every part (the validation of the planner)
polygon_to_h3_cells(g, res) == UNION {p.fill[res] : p \in g.parts}

estimate_resolution_from_area_mut(polygon_area_m2, target_cells, min_resolution, max_resolution) ==
    LET fits == {res \in min_resolution..max_resolution :
                    H3_AVG_HEXAGON_AREA_M2(res) * target_cells <= polygon_area_m2}
    IN  IF fits = {} THEN max_resolution ELSE Max(fits)
\* for res in range(min_resolution, max_resolution + 1):
\*     if H3_AVG_HEXAGON_AREA_M2[res] <= polygon_area_m2 / target_cells: return res
\* return max_resolution
estimate_resolution_from_area(polygon_area_m2, target_cells, min_resolution, max_resolution) ==
    LET fits == {res \in min_resolution..max_resolution :
                    H3_AVG_HEXAGON_AREA_M2(res) * target_cells <= polygon_area_m2}
    IN  IF fits = {} THEN max_resolution ELSE Min(fits)

adjust_needed_empty_mut(num_cells, target_cells, estimated_resolution, max_resolution) ==
    num_cells = 0 /\ estimated_resolution < max_resolution
adjust_needed_above_mut(num_cells, target_cells, estimated_resolution, max_resolution) ==
    num_cells > target_cells /\ estimated_resolution < max_resolution
\* if num_cells < target_cells and estimated_resolution < max_resolution
adjust_needed(num_cells, target_cells, estimated_resolution, max_resolution) ==
    num_cells < target_cells /\ estimated_resolution < max_resolution

calculate_optimal_resolution(g, target_cells, min_resolution, max_resolution) ==
    LET estimated_resolution ==
            estimate_resolution_from_area(g.area, target_cells, min_resolution, max_resolution)
        num_cells == Cardinality(polygon_to_h3_cells(g, estimated_resolution))
    IN  IF adjust_needed(num_cells, target_cells, estimated_resolution, max_resolution)
        THEN estimated_resolution + 1
        ELSE IF num_cells = 0 THEN None
        ELSE estimated_resolution

centroid_fallback_mut(h3_cells, centroid, resolution) == h3_cells
centroid_fallback_finest_mut(h3_cells, centroid, resolution) ==
    IF h3_cells = {} THEN {centroid} ELSE h3_cells
\* if not h3_cells: return {h3.latlng_to_cell(centroid.y, centroid.x, resolution)}
centroid_fallback(h3_cells, centroid, resolution) ==
    IF h3_cells = {} THEN {latlng_to_cell(centroid, resolution)} ELSE h3_cells

\* polygon_to_h3: every part of a MultiPolygon is encoded on its own, with its
\* own centroid fallback
polygon_to_h3(g, resolution) ==
    LET all_cells == UNION {centroid_fallback(p.fill[resolution], p.centroid, resolution)
                               : p \in g.parts}
    IN  centroid_fallback(all_cells, Centroid(g), resolution)

\* returns <<cells, resolution>>
polygon_to_h3_adaptive(g, target_cells, min_resolution, max_resolution) ==
    LET optimal_res ==
            calculate_optimal_resolution(g, target_cells, min_resolution, max_resolution)
    IN  IF optimal_res = None
        THEN <<{latlng_to_cell(Centroid(g), max_resolution)}, max_resolution>>
        ELSE <<polygon_to_h3(g, optimal_res), optimal_res>>

\* points, lines and their Multi variants, and a geometry no encoder accepts
OtherTypes == {"Point", "LineString", "MultiPoint", "MultiLineString", "GeometryCollection"}

SupportedTypes == OtherTypes \ {"GeometryCollection"}

convert_geometry_to_h3_mut(g, resolution) == {p.centroid : p \in g.parts}
\* convert_geometry_to_h3: a point is the cell of its position, a line the
\* cells of its grid paths, a Multi geometry the union over its parts
convert_geometry_to_h3(g, resolution) ==
    IF g.type \in {"Point", "MultiPoint"}
    THEN {latlng_to_cell(p.centroid, resolution) : p \in g.parts}
    ELSE IF g.type \in {"LineString", "MultiLineString"}
    THEN UNION {p.fill[resolution] : p \in g.parts}
    ELSE polygon_to_h3(g, resolution)

\* raise ValueError(f"Unsupported geometry type: {type(geometry)}")
Unsupported(g) == g.type \notin SupportedTypes \cup PolygonTypes

\* one row of convert_geodataframe_to_h3_adaptive: <<cells, resolution>>
convert_row(g, target_cells, min_resolution, max_resolution) ==
    IF g.type \in PolygonTypes
    THEN polygon_to_h3_adaptive(g, target_cells, min_resolution, max_resolution)
    ELSE <<convert_geometry_to_h3(g, max_resolution), max_resolution>>

ConvRaise == [status |-> "raise", h3_cells |-> << >>, resolutions |-> << >>]

\* the loop has no exception handler: one unsupported geometry ends the batch
convert_geodataframe_to_h3_adaptive(gdf, target_cells, min_resolution, max_resolution) ==
    IF \E i \in DOMAIN gdf : Unsupported(gdf[i])
    THEN ConvRaise
    ELSE [status |-> "ok",
          h3_cells |-> [i \in DOMAIN gdf |->
              convert_row(gdf[i], target_cells, min_resolution, max_resolution)[1]],
          resolutions |-> [i \in DOMAIN gdf |->
              convert_row(gdf[i], target_cells, min_resolution, max_resolution)[2]]]

\* ------------------------------------------------------------------ state
VARIABLES
    features,   \* the features table: feature_id -> row
    op,         \* the operation last called
    arg_a,      \* its first argument
    arg_b,      \* its second argument
    first_a,    \* library calls: resolution of the first element of cells_a in iteration order
    first_b,    \* library calls: resolution of the first element of cells_b in iteration order
    ret,        \* what the call returned, or that it raised
    conv,       \* the converter call in progress: its arguments and its result
    config,     \* the ingest configuration (config.yaml or the interactive answers)
    pc,         \* where the ingest script is
    errors,     \* the errors validate_config has collected
    loaded,     \* the merged GeoDataFrame, once the input files are read
    disk,       \* the output path before the run and now: is there a database, its rows
    views,      \* the temporary views registered on the engine's connection
    srv         \* the tile server: sessions, tile cache, session tables, last response

vars == <<features, op, arg_a, arg_b, first_a, first_b, ret, conv,
          config, pc, errors, loaded, disk, views, srv>>

ingest_vars == <<config, pc, errors, loaded, disk>>

NoArg == [kind |-> "none", ids |-> {}, cells |-> NoBag]

\* the cell set a caller of the library holds: the cells of some feature rows
CellSetArg(ids) == [kind |-> "cellset", ids |-> ids, cells |-> NoBag]

CellsOf(db, ids) == UNION {db[i].h3_cells : i \in ids}

\* the resolutions the first element in iteration order can have
Firsts(S) == IF S = {} THEN {None} ELSE {get_resolution(c) : c \in S}

\* the selections a caller can pass: a filter, or the relation union() returned
\* for the whole table
Filters == {FilterSel(ids) : ids \in SUBSET Ids}

UnionRels(db) ==
    {CellRel(H3Engine_union(db, FilterSel(Ids)).cells)}

Selections(db) == Filters \cup UnionRels(db)

\* ------------------------------------------------------------ ingest script
\* input files a configuration can name: one that exists and one that does not
ExistingFiles == {"a.gpkg"}

InputFiles == ExistingFiles \cup {"missing.gpkg"}

\* VALID_CONTAINMENT_MODES = {m.value: m for m in ContainmentMode}
VALID_CONTAINMENT_MODES == {"center", "full", "overlap", "overlap_bbox"}

\* a configuration: every key present; resolutions one step beyond the valid
\* range on both sides, target_cells from 0, an unknown containment mode and
\* an empty output path included
Configs ==
    [input_files : SUBSET InputFiles,
     output_file : {"", "out.duckdb"},
     target_cells : 0..MaxTarget,
     min_resolution : (0 - 1)..(MaxRes + 1),
     max_resolution : (0 - 1)..(MaxRes + 1),
     containment_mode : VALID_CONTAINMENT_MODES \cup {"bogus"}]

\* the errors list validate_config builds
validate_config(c) ==
    (IF c.input_files = {} THEN {"input_files"} ELSE {})
    \cup (IF c.output_file = "" THEN {"output_file"} ELSE {})
    \cup (IF c.min_resolution > c.max_resolution THEN {"min_resolution > max_resolution"} ELSE {})
    \cup (IF c.containment_mode \notin VALID_CONTAINMENT_MODES THEN {"containment_mode"} ELSE {})
    \cup {f \in c.input_files : f \notin ExistingFiles}

\* the output path: no file, or a database with a features table
NoDatabase == [exists |-> FALSE, rows |-> << >>]

Database(rows) == [exists |-> TRUE, rows |-> rows]

\* the features table an earlier ingest left at the output path
OldDatabase == Database(<<{<<0>>}>>)

NoConfig ==
    [input_files |-> {}, output_file |-> "", target_cells |-> 0,
     min_resolution |-> 0, max_resolution |-> 0, containment_mode |-> ""]

\* no ingest in progress
IngestIdle ==
    /\ config = NoConfig
    /\ pc = "none"
    /\ errors = {}
    /\ loaded = << >>
    /\ disk = [before |-> NoDatabase, now |-> NoDatabase]

\* ------------------------------------------------------------ tile server
\* A filter string is the sequence of its tokens, separated by blanks; the
\* empty sequence stands for None and for the empty string.
NoQuery == << >>

\* re.search(pattern, clause_upper): the pattern's tokens occur in a row
Occurs(p, w) ==
    \E i \in 1..(Len(w) - Len(p) + 1) : SubSeq(w, i, i + Len(p) - 1) = p

\* the dangerous_patterns list; ";" counts only in front of a DDL/DML keyword
\* and SLEEP only in front of "("
dangerous_patterns ==
    {<<";", "DROP">>, <<"--">>, <<"/*">>, <<"UNION", "SELECT">>,
     <<"INTO", "OUTFILE">>, <<"LOAD_FILE">>, <<"BENCHMARK">>, <<"SLEEP", "(">>}

validate_sql_where(where_clause) ==
    IF where_clause = NoQuery
    THEN FALSE
    ELSE ~\E p \in dangerous_patterns : Occurs(p, where_clause)

\* does the engine run a query with this WHERE clause, or does DuckDB raise
SqlRuns(where_clause) == where_clause \in {<<"a=1">>, <<"1=0">>}

Layers == {"a", "b", "result", "geom_a", "geom_b"}

NoKey == << >>

\* cache_key = (session, layer, z, x, y)
CacheKey(session, layer, tile) == <<session, layer, tile>>

RECURSIVE EvictOldest(_, _)
\* while len(_tile_cache) >= TILE_CACHE_SIZE and _tile_cache_order: pop(0)
EvictOldest(cache, order) ==
    IF Cardinality(cache) >= TILE_CACHE_SIZE /\ order # << >>
    THEN EvictOldest(cache \ {Head(order)}, Tail(order))
    ELSE [cache |-> cache, order |-> order]

set_cached_tile_mut(cache, order, key) ==
    [cache |-> cache \cup {key}, order |-> Append(order, key)]
set_cached_tile(cache, order, key) ==
    LET e == EvictOldest(cache, order)
    IN  [cache |-> e.cache \cup {key}, order |-> Append(e.order, key)]

\* get_cached_tile on a hit: the key moves to the end of the LRU order
get_cached_tile(order, key) ==
    Append(SelectSeq(order, LAMBDA k : k # key), key)

clear_session_cache_mut(cache, order, session_ids) ==
    [cache |-> cache,
     order |-> SelectSeq(order, LAMBDA k : k[1] \notin session_ids)]
\* clear_session_cache(sid) for every sid of session_ids
clear_session_cache(cache, order, session_ids) ==
    [cache |-> {k \in cache : k[1] \notin session_ids},
     order |-> SelectSeq(order, LAMBDA k : k[1] \notin session_ids)]

\* rendering_unregister_session(sid) for every sid of session_ids
rendering_unregister_session(tables, session_ids) ==
    {t \in tables : t[1] \notin session_ids}

\* the table rendering_register_session registers for one layer: the query is
\* run when the clause is set and is not "1=0"; an error is caught and printed
RegisterLayer(session_id, layer, where_clause) ==
    IF where_clause # NoQuery /\ where_clause # <<"1=0">> /\ SqlRuns(where_clause)
    THEN {<<session_id, layer>>}
    ELSE {}

LayerQueries(where_clause) ==
    IF where_clause # NoQuery /\ where_clause # <<"1=0">> THEN {where_clause} ELSE {}

\* precompute_cells_for_session: does it call intersection() or union()
ComputesResult(query_a, query_b, operation) ==
    /\ query_a # NoQuery
    /\ \/ operation = "intersection" /\ query_b # NoQuery
       \/ operation = "union"

\* "1=0" selects no row: the relation is empty
ResultNonEmpty(query_a, query_b, operation) ==
    /\ query_a # <<"1=0">>
    /\ operation = "intersection" => query_b # <<"1=0">>

\* rendering_register_result registers a table unless the relation is empty
\* or a query raises
RegisterResult(session_id, query_a, query_b, operation) ==
    IF /\ ComputesResult(query_a, query_b, operation)
       /\ SqlRuns(query_a)
       /\ operation = "intersection" => SqlRuns(query_b)
       /\ ResultNonEmpty(query_a, query_b, operation)
    THEN {<<session_id, "result">>}
    ELSE {}

ResultQueries(query_a, query_b, operation) ==
    IF ComputesResult(query_a, query_b, operation)
    THEN IF operation = "intersection" THEN {query_a, query_b} ELSE {query_a}
    ELSE {}

SrvIdle ==
    [sessions |-> << >>, tile_cache |-> {}, tile_cache_order |-> << >>,
     tables |-> {}, now |-> 0, engine_sql |-> {}, status |-> 0, evicted |-> NoKey,
     cleared |-> {}, unregistered |-> {}]

\* sids with now - created_at > SESSION_TTL_SECONDS
Expired(s) ==
    {sid \in DOMAIN s.sessions :
        s.now - s.sessions[sid].created_at > SESSION_TTL_SECONDS}

cleanup_old_sessions(s) ==
    LET expired == Expired(s)
        c == clear_session_cache(s.tile_cache, s.tile_cache_order, expired)
    IN  [s EXCEPT !.tables = rendering_unregister_session(s.tables, expired),
                  !.tile_cache = c.cache,
                  !.tile_cache_order = c.order,
                  !.cleared = s.tile_cache \ c.cache,
                  !.unregistered = s.tables \ rendering_unregister_session(s.tables, expired),
                  !.sessions = [sid \in (DOMAIN s.sessions) \ expired |-> s.sessions[sid]]]

\* POST /query
register_query(s, query_a, query_b, operation, session_id) ==
    LET c == [cleanup_old_sessions(s) EXCEPT !.engine_sql = {}, !.evicted = NoKey]
    IN  IF query_a # NoQuery /\ ~validate_sql_where(query_a)
        THEN [c EXCEPT !.status = 400]
        ELSE IF query_b # NoQuery /\ ~validate_sql_where(query_b)
        THEN [c EXCEPT !.status = 400]
        ELSE
          LET session_data == [query_a |-> query_a, query_b |-> query_b,
                               operation |-> operation, created_at |-> s.now]
          IN  [c EXCEPT
                 !.sessions = [sid \in (DOMAIN c.sessions) \cup {session_id} |->
                                  IF sid = session_id THEN session_data
                                  ELSE c.sessions[sid]],
                 !.tables = c.tables
                            \cup RegisterLayer(session_id, "a", query_a)
                            \cup RegisterLayer(session_id, "b", query_b)
                            \cup RegisterResult(session_id, query_a, query_b,
                                                operation),
                 !.engine_sql = LayerQueries(query_a) \cup LayerQueries(query_b)
                                \cup ResultQueries(query_a, query_b, operation),
                 !.status = 200]

\* generate_tile: the WHERE clause a geometry layer hands to the engine
generate_tile(session_data, layer) ==
    IF layer = "geom_a" /\ session_data.query_a # NoQuery THEN {session_data.query_a}
    ELSE IF layer = "geom_b" /\ session_data.query_b # NoQuery THEN {session_data.query_b}
    ELSE {}

\* GET /tiles/{layer}/{z}/{x}/{y}.mvt
get_tile(s, layer, tile, session) ==
    LET r == [s EXCEPT !.engine_sql = {}, !.evicted = NoKey, !.cleared = {},
                       !.unregistered = {}]
    IN  IF session \notin DOMAIN s.sessions
        THEN [r EXCEPT !.status = 404]
        ELSE IF layer \notin Layers
        THEN [r EXCEPT !.status = 400]
        ELSE
          LET cache_key == CacheKey(session, layer, tile)
          IN  IF cache_key \in s.tile_cache
              THEN [r EXCEPT !.tile_cache_order = get_cached_tile(s.tile_cache_order, cache_key),
                             !.status = 200]
              ELSE
                LET c == set_cached_tile(s.tile_cache, s.tile_cache_order, cache_key)
                    gone == s.tile_cache \ c.cache
                IN  [r EXCEPT !.tile_cache = c.cache,
                              !.tile_cache_order = c.order,
                              !.engine_sql = generate_tile(s.sessions[session], layer),
                              !.evicted = IF gone = {} THEN NoKey
                                          ELSE CHOOSE k \in gone : TRUE,
                              !.status = 200]

\* app.py run_spatial_operation: engine.features.filter(query) on the user's
\* text; query B is not run when query A raised
run_spatial_operation(s, query_a, query_b) ==
    [s EXCEPT !.engine_sql =
                 (IF query_a # NoQuery THEN {query_a} ELSE {})
                 \cup (IF query_b # NoQuery /\ (query_a = NoQuery \/ SqlRuns(query_a))
                       THEN {query_b} ELSE {}),
              !.evicted = NoKey,
              !.cleared = {},
              !.unregistered = {},
              !.status = 0]

\* no converter call in progress
ConvIdle ==
    [op |-> "idle", gdf |-> << >>, polygon_area_m2 |-> 0,
     target_cells |-> 0, min_resolution |-> 0,
     max_resolution |-> 0, status |-> "none", h3_cells |-> << >>,
     resolutions |-> << >>, h3_cell_count |-> << >>]

Init ==
    /\ conv = ConvIdle
    /\ srv = SrvIdle
    /\ IngestIdle
    /\ features \in Tables
    /\ op = "init"
    /\ arg_a = NoArg
    /\ arg_b = NoArg
    /\ first_a = None
    /\ first_b = None
    /\ ret = NoRet
    /\ views = {}

\* view_name = f"_h3_tmp_{id(condition)}": one name per relation object
view_name(cond) == cond.cells

RelationArgs(conds) == {c \in conds : c.kind = "cells"}

\* _to_table_expr on each argument: self.conn.register(view_name, condition)
\* for a relation, nothing for a WHERE string
register_views(registered, conds) ==
    registered \cup {view_name(c) : c \in RelationArgs(conds)}

\* _cleanup_views(*conditions): self.conn.unregister(view_name) for a relation
cleanup_views(registered, conds) ==
    registered \ {view_name(c) : c \in RelationArgs(conds)}

\* intersects and within: the views are registered, then released in finally
predicate_views(registered, conds) ==
    cleanup_views(register_views(registered, conds), conds)

\* intersection and union: the views are registered; there is no cleanup
set_operation_views(registered, conds) == register_views(registered, conds)

EngineCall(name, a, b, r, v) ==
    /\ op = "init"
    /\ op' = name
    /\ arg_a' = a
    /\ arg_b' = b
    /\ first_a' = None
    /\ first_b' = None
    /\ ret' = r
    /\ views' = v
    /\ UNCHANGED <<features, conv, srv, ingest_vars>>

Intersects ==
    \E a \in Selections(features), b \in Selections(features) :
        EngineCall("intersects", a, b, H3Engine_intersects(features, a, b),
                   predicate_views(views, {a, b}))

Within ==
    \E a \in Selections(features), b \in Selections(features) :
        EngineCall("within", a, b, H3Engine_within(features, a, b),
                   predicate_views(views, {a, b}))

Contains ==
    \E a \in Selections(features), b \in Selections(features) :
        EngineCall("contains", a, b, H3Engine_contains(features, a, b),
                   predicate_views(views, {a, b}))

Intersection ==
    \E a \in Selections(features), b \in Selections(features) :
        EngineCall("intersection", a, b, H3Engine_intersection(features, a, b),
                   set_operation_views(views, {a, b}))

Union ==
    \E s \in Selections(features) :
        EngineCall("union", s, NoArg, H3Engine_union(features, s),
                   set_operation_views(views, {s}))

LibCall(name, ia, ib, fa, fb, r) ==
    /\ op = "init"
    /\ op' = name
    /\ arg_a' = CellSetArg(ia)
    /\ arg_b' = CellSetArg(ib)
    /\ first_a' = fa
    /\ first_b' = fb
    /\ ret' = r
    /\ UNCHANGED <<features, conv, srv, ingest_vars, views>>

LibIntersects ==
    \E ia \in SUBSET Ids, ib \in SUBSET Ids :
        \E fa \in Firsts(CellsOf(features, ia)), fb \in Firsts(CellsOf(features, ib)) :
            LibCall("lib_intersects", ia, ib, fa, fb,
                    predicates_intersects(CellsOf(features, ia), CellsOf(features, ib), fa, fb))

LibWithin ==
    \E ia \in SUBSET Ids, ib \in SUBSET Ids :
        \E fa \in Firsts(CellsOf(features, ia)), fb \in Firsts(CellsOf(features, ib)) :
            LibCall("lib_within", ia, ib, fa, fb,
                    predicates_within(CellsOf(features, ia), CellsOf(features, ib), fa, fb))

LibContains ==
    \E ia \in SUBSET Ids, ib \in SUBSET Ids :
        \E fa \in Firsts(CellsOf(features, ia)), fb \in Firsts(CellsOf(features, ib)) :
            LibCall("lib_contains", ia, ib, fa, fb,
                    predicates_contains(CellsOf(features, ia), CellsOf(features, ib), fa, fb))

LibTouches ==
    \E ia \in SUBSET Ids, ib \in SUBSET Ids :
        \E fa \in Firsts(CellsOf(features, ia)), fb \in Firsts(CellsOf(features, ib)) :
            LibCall("lib_touches", ia, ib, fa, fb,
                    predicates_touches(CellsOf(features, ia), CellsOf(features, ib), fa, fb))

\* the caller takes the result; the engine is idle again
Return ==
    /\ op # "init"
    /\ op' = "init"
    /\ arg_a' = NoArg
    /\ arg_b' = NoArg
    /\ first_a' = None
    /\ first_b' = None
    /\ ret' = NoRet
    /\ UNCHANGED <<features, conv, srv, ingest_vars, views>>

Next ==
    \/ Intersects
    \/ Within
    \/ Contains
    \/ Intersection
    \/ Union
    \/ LibIntersects
    \/ LibWithin
    \/ LibContains
    \/ LibTouches
    \/ Return

Spec == Init /\ [][Next]_vars

\* ------------------------------------------------ the converter as a program
\* the parts batch rows are drawn from: a tiny one and one that fills MaxCells
\* cells at every resolution
SampleParts ==
    {p \in Parts : /\ CellIndex(p.centroid) = 0
                   /\ \/ p \in TinyParts
                      \/ \A r \in Resolutions : p.fill[r] = FirstCells(r, MaxCells)}

OtherGeometries ==
    UNION {{[type |-> t, area |-> 0, parts |-> {p}] : p \in SampleParts} : t \in OtherTypes}

SampleGeometries ==
    {g \in Polygons : g.area \in {0, MaxArea} /\ g.parts \subseteq SampleParts}
    \cup OtherGeometries

\* a GeoDataFrame: one geometry per row
Gdfs == UNION {[1..n -> SampleGeometries] : n \in 1..MaxBatch}

Targets == 1..MaxTarget

\* the engine has no part in a converter run
EngineIdle ==
    /\ op = "init"
    /\ arg_a = NoArg
    /\ arg_b = NoArg
    /\ first_a = None
    /\ first_b = None
    /\ ret = NoRet
    /\ views = {}

engine_vars == <<features, op, arg_a, arg_b, first_a, first_b, ret, views>>

NoFeatures == [i \in Ids |-> [h3_resolution |-> 0, h3_cells |-> {}]]

ConverterInit ==
    /\ conv = ConvIdle
    /\ srv = SrvIdle
    /\ IngestIdle
    /\ features = NoFeatures
    /\ EngineIdle

\* polygon_to_h3_adaptive(polygon, target_cells, min_resolution, max_resolution)
PolygonToH3Adaptive ==
    /\ conv.op = "idle"
    /\ \E g \in Polygons, t \in Targets, lo \in Resolutions, hi \in Resolutions :
        /\ LET r == polygon_to_h3_adaptive(g, t, lo, hi)
           IN  conv' = [op |-> "polygon_to_h3_adaptive", gdf |-> <<g>>,
                        polygon_area_m2 |-> g.area,
                        target_cells |-> t, min_resolution |-> lo, max_resolution |-> hi,
                        status |-> "ok", h3_cells |-> <<r[1]>>, resolutions |-> <<r[2]>>,
                        h3_cell_count |-> << >>]
        /\ UNCHANGED <<engine_vars, srv, ingest_vars>>

\* the conversion stage of a run: the batch converter, then the three columns
\*   gdf["h3_cells"] = h3_cells; gdf["h3_resolution"] = resolutions
\*   gdf["h3_cell_count"] = [len(s) for s in h3_cells]
RunConversion ==
    /\ conv.op = "idle"
    /\ \E gdf \in Gdfs, t \in Targets, lo \in Resolutions, hi \in Resolutions :
        /\ lo <= hi
        /\ LET r == convert_geodataframe_to_h3_adaptive(gdf, t, lo, hi)
           IN  conv' = [op |-> "run_conversion", gdf |-> gdf,
                        polygon_area_m2 |-> 0,
                        target_cells |-> t, min_resolution |-> lo, max_resolution |-> hi,
                        status |-> r.status, h3_cells |-> r.h3_cells,
                        resolutions |-> r.resolutions,
                        h3_cell_count |-> [i \in DOMAIN r.h3_cells |->
                                              Cardinality(r.h3_cells[i])]]
        /\ UNCHANGED <<engine_vars, srv, ingest_vars>>

\* polygon_to_h3(polygon, resolution): the encoder at a fixed resolution
PolygonToH3 ==
    /\ conv.op = "idle"
    /\ \E g \in Polygons, r \in Resolutions :
        /\ conv' = [op |-> "polygon_to_h3", gdf |-> <<g>>,
                    polygon_area_m2 |-> g.area,
                    target_cells |-> 0, min_resolution |-> r, max_resolution |-> r,
                    status |-> "ok", h3_cells |-> <<polygon_to_h3(g, r)>>,
                    resolutions |-> <<r>>, h3_cell_count |-> << >>]
        /\ UNCHANGED <<engine_vars, srv, ingest_vars>>

\* _estimate_resolution_from_area(polygon_area_m2, target_cells, min_resolution,
\* max_resolution)
EstimateResolutionFromArea ==
    /\ conv.op = "idle"
    /\ \E a \in Areas, t \in Targets, lo \in Resolutions, hi \in Resolutions :
        /\ conv' = [op |-> "estimate_resolution_from_area", gdf |-> << >>,
                    polygon_area_m2 |-> a,
                    target_cells |-> t, min_resolution |-> lo, max_resolution |-> hi,
                    status |-> "ok", h3_cells |-> << >>,
                    resolutions |-> <<estimate_resolution_from_area(a, t, lo, hi)>>,
                    h3_cell_count |-> << >>]
        /\ UNCHANGED <<engine_vars, srv, ingest_vars>>

\* the caller takes the result
ConvReturn ==
    /\ conv.op # "idle"
    /\ conv' = ConvIdle
    /\ UNCHANGED <<engine_vars, srv, ingest_vars>>

ConverterNext ==
    \/ PolygonToH3Adaptive
    \/ PolygonToH3
    \/ EstimateResolutionFromArea
    \/ RunConversion
    \/ ConvReturn

ConverterSpec == ConverterInit /\ [][ConverterNext]_vars

\* ------------------------------------------- the ingest script as a program
\* main() has read the configuration; the output path holds either nothing or
\* the database of an earlier ingest
IngestInit ==
    /\ config \in Configs
    /\ pc = "main"
    /\ errors = {}
    /\ loaded = << >>
    /\ \E d \in {NoDatabase, OldDatabase} : disk = [before |-> d, now |-> d]
    /\ conv = ConvIdle
    /\ srv = SrvIdle
    /\ features = NoFeatures
    /\ EngineIdle

\* validate_config(config): print the errors and sys.exit(1), or go on
ValidateConfig ==
    /\ pc = "main"
    /\ errors' = validate_config(config)
    /\ pc' = IF validate_config(config) # {} THEN "exit" ELSE "run_unified_conversion"
    /\ UNCHANGED <<engine_vars, srv, conv, config, loaded, disk>>

\* run_unified_conversion, first step:
\*   if output_path.exists(): output_path.unlink()
DeleteExisting ==
    /\ pc = "run_unified_conversion"
    /\ disk' = [disk EXCEPT !.now = NoDatabase]
    /\ pc' = "load_and_merge_geodata"
    /\ UNCHANGED <<engine_vars, srv, conv, config, errors, loaded>>

\* load_and_merge_geodata: gpd.read_file gives the rows of the input files, or
\* raises on a file it cannot read
LoadAndMerge ==
    /\ pc = "load_and_merge_geodata"
    /\ \/ \E gdf \in Gdfs : loaded' = gdf /\ pc' = "convert_to_h3"
       \/ loaded' = << >> /\ pc' = "failed"
    /\ UNCHANGED <<engine_vars, srv, conv, config, errors, disk>>

\* convert_to_h3 calls convert_geodataframe_to_h3(gdf, target_cells=...,
\* min_resolution=..., max_resolution=..., containment_mode=...), a function
\* whose parameters are (gdf, resolution, geometry_column, containment_mode):
\* the call raises TypeError and the run ends there
ConvertToH3 ==
    /\ pc = "convert_to_h3"
    /\ pc' = "failed"
    /\ UNCHANGED <<engine_vars, srv, conv, config, errors, loaded, disk>>

IngestNext ==
    \/ ValidateConfig
    \/ DeleteExisting
    \/ LoadAndMerge
    \/ ConvertToH3

IngestSpec == IngestInit /\ [][IngestNext]_vars

\* ===================================================== the claims' vocabulary
\* Res(S), r_min(S), r_max(S) and Cells(S) of a selection of feature rows
ResOf(db, ids) == {db[i].h3_resolution : i \in ids}
r_min(db, ids) == Min(ResOf(db, ids))
r_max(db, ids) == Max(ResOf(db, ids))

\* S* = { cell_to_parent(c, r) : c in Cells(S) }
Star(db, ids, r) == {cell_to_parent(c, r) : c \in CellsOf(db, ids)}

\* r* = min(r_min(A), r_min(B))
r_star(db, ia, ib) == Min({r_min(db, ia), r_min(db, ib)})

FilterCall(name) == op = name /\ arg_a.kind = "filter" /\ arg_b.kind = "filter"

NonEmptyFilterCall(name) == FilterCall(name) /\ arg_a.ids # {} /\ arg_b.ids # {}

\* C1: for selections A and B that each select at least one row, intersects(A, B)
\* returns true exactly when the parents of A's cells and of B's cells at
\* r* = min(r_min(A), r_min(B)) share a cell.
C1_IntersectsSharedParent ==
    NonEmptyFilterCall("intersects") =>
        LET r == r_star(features, arg_a.ids, arg_b.ids)
        IN  ret = RetBool(Star(features, arg_a.ids, r) \cap Star(features, arg_b.ids, r) # {})

\* a mixed-resolution call whose raw cell sets are disjoint and that returns true
C1_Witness ==
    /\ NonEmptyFilterCall("intersects")
    /\ r_min(features, arg_a.ids) # r_min(features, arg_b.ids)
    /\ CellsOf(features, arg_a.ids) \cap CellsOf(features, arg_b.ids) = {}
    /\ ret = RetBool(TRUE)

\* C2: for selections A and B that each select at least one row, within(A, B)
\* returns true exactly when A* is a subset of B*, both taken at
\* r* = min(r_min(A), r_min(B)).
C2_WithinIsSubset ==
    NonEmptyFilterCall("within") =>
        LET r == r_star(features, arg_a.ids, arg_b.ids)
        IN  ret = RetBool(Star(features, arg_a.ids, r) \subseteq Star(features, arg_b.ids, r))

\* a call on a finer A and a coarser B, with a cell of A outside B: false
C2_Witness ==
    /\ NonEmptyFilterCall("within")
    /\ r_min(features, arg_a.ids) > r_min(features, arg_b.ids)
    /\ Cardinality(CellsOf(features, arg_a.ids)) > 1
    /\ ret = RetBool(FALSE)

LibCallOf(name) == op = name /\ arg_a.kind = "cellset"

\* C3: contains(A, B) returns what within(B, A) returns, in the engine (any
\* selections) and in the library (any cell sets, empty and mixed-resolution
\* ones included).
C3_ContainsIsWithinSwapped ==
    /\ op = "contains" => ret = H3Engine_within(features, arg_b, arg_a)
    /\ LibCallOf("lib_contains") =>
          ret = predicates_within(CellsOf(features, arg_b.ids),
                                  CellsOf(features, arg_a.ids), first_b, first_a)

\* a library contains over sets of different resolutions, neither within the other
C3_Witness ==
    /\ LibCallOf("lib_contains")
    /\ first_a # None /\ first_b # None /\ first_a # first_b
    /\ ret = RetBool(FALSE)
    /\ predicates_within(CellsOf(features, arg_a.ids),
                         CellsOf(features, arg_b.ids), first_a, first_b) = RetBool(TRUE)

LibOps == {"lib_intersects", "lib_within", "lib_contains", "lib_touches"}

\* C5: every library predicate returns a boolean without raising for every pair
\* of cell sets, and returns false whenever cells_a or cells_b is empty.
C5_LibraryTotalFalseOnEmpty ==
    (op \in LibOps) =>
        /\ ret.status = "ok"
        /\ (CellsOf(features, arg_a.ids) = {} \/ CellsOf(features, arg_b.ids) = {})
              => ret.bool = FALSE

\* the failing input of C5 is reached: within of an empty cells_a returns true
C5_Reached ==
    /\ LibCallOf("lib_within")
    /\ CellsOf(features, arg_a.ids) = {} /\ CellsOf(features, arg_b.ids) # {}
    /\ ret = RetBool(TRUE)

\* The hierarchical scenario: A is one coarse cell c, B is one finer cell d and
\* cell_to_parent(d, resolution_of(c)) = c (the spec's c5 and c10).
Scenario(db, ia, ib) ==
    \E i \in Ids, j \in Ids :
        /\ ia = {i} /\ ib = {j}
        /\ db[i].h3_resolution < db[j].h3_resolution
        /\ \E c \in CellsAt(db[i].h3_resolution), d \in CellsAt(db[j].h3_resolution) :
              /\ db[i].h3_cells = {c}
              /\ db[j].h3_cells = {d}
              /\ cell_to_parent(d, db[i].h3_resolution) = c

EngineOrLib(name) == FilterCall(name) \/ LibCallOf("lib_" \o name)

\* the three expectations of the scenario that hold: intersects(A, B),
\* within(B, A) and contains(A, B) are true
ScenarioTrueParts ==
    /\ (EngineOrLib("intersects") /\ Scenario(features, arg_a.ids, arg_b.ids))
          => ret = RetBool(TRUE)
    /\ (EngineOrLib("within") /\ Scenario(features, arg_b.ids, arg_a.ids))
          => ret = RetBool(TRUE)
    /\ (EngineOrLib("contains") /\ Scenario(features, arg_a.ids, arg_b.ids))
          => ret = RetBool(TRUE)

Refine(db, i, r) ==
    [db EXCEPT ![i] = [h3_resolution |-> r,
                       h3_cells |-> UNION {cell_to_children(c, r) : c \in db[i].h3_cells}]]

\* the (feature, finer resolution) pairs that refine one feature of `ids` which
\* is no row of `other`
RefinedRows(db, ids, other) ==
    {p \in (ids \ other) \X Resolutions :
        db[p[1]].h3_cells # {} /\ p[2] > db[p[1]].h3_resolution}

EngineOp(name, db, a, b) ==
    CASE name = "intersects" -> H3Engine_intersects(db, a, b)
      [] name = "within"     -> H3Engine_within(db, a, b)
      [] name = "contains"   -> H3Engine_contains(db, a, b)

LibOp(name, ca, cb, ra, rb) ==
    CASE name = "lib_intersects" -> predicates_intersects(ca, cb, ra, rb)
      [] name = "lib_within"     -> predicates_within(ca, cb, ra, rb)
      [] name = "lib_contains"   -> predicates_contains(ca, cb, ra, rb)

\* a cell set of one resolution, every cell replaced by its children at r
RefineSet(cells, r) == UNION {cell_to_children(c, r) : c \in cells}

OneResolution(cells) == Cardinality({get_resolution(c) : c \in cells}) = 1

RefinedUnion(db, ids) ==
    LET rmax == r_max(db, ids)
    IN  {c \in CellsOf(db, ids) : get_resolution(c) = rmax}
          \cup UNION {cell_to_children(c, rmax) :
                        c \in {x \in CellsOf(db, ids) : get_resolution(x) < rmax}}

\* one feature {c} and one feature holding two cells two resolutions finer,
\* both descendants of c (the spec's c6 and its r=8 descendants)
UnionExample(db, ids) ==
    \E i \in ids, j \in ids :
        /\ ids = {i, j}
        /\ db[j].h3_resolution = db[i].h3_resolution + 2
        /\ Cardinality(db[i].h3_cells) = 1
        /\ Cardinality(db[j].h3_cells) = 2
        /\ \A c \in db[i].h3_cells, d \in db[j].h3_cells :
              cell_to_parent(d, db[i].h3_resolution) = c

\* C8: union(S) is duplicate-free, holds only cells of resolution r_max(S), and
\* equals the cells of the rows at r_max(S) together with the children at
\* r_max(S) of every cell of a coarser row; in the example it is the
\* Aperture^2 descendants of c; for an empty S it is the empty relation.
C8_UnionRefined ==
    (op = "union" /\ arg_a.kind = "filter") =>
        IF arg_a.ids = {}
        THEN ret = RetCells(EmptyBag)
        ELSE /\ ret.status = "ok"
             /\ \A c \in BagCells(ret.cells) :
                   /\ ret.cells[c] = 1
                   /\ get_resolution(c) = r_max(features, arg_a.ids)
             /\ BagCells(ret.cells) = RefinedUnion(features, arg_a.ids)
             /\ UnionExample(features, arg_a.ids) =>
                   Cardinality(BagCells(ret.cells)) = Aperture * Aperture

\* union called on the example
C8_Witness ==
    /\ op = "union" /\ arg_a.kind = "filter"
    /\ UnionExample(features, arg_a.ids)
    /\ ret.status = "ok"
    /\ Cardinality(BagCells(ret.cells)) = Aperture * Aperture

\* C9: the relation union returned is accepted by union, and union(union(S))
\* equals union(S) as a cell set.
C9_UnionOfUnion ==
    (op = "union" /\ arg_a.kind = "cells") =>
        /\ ret.status = "ok"
        /\ BagCells(ret.cells) = BagCells(arg_a.cells)

\* union is called on the non-empty relation an earlier union returned
C9_Reached ==
    /\ op = "union" /\ arg_a.kind = "cells"
    /\ BagCells(arg_a.cells) # {}
    /\ ret = Raise

\* ---- intersection (C10)
\* F is A when r_max(A) >= r_max(B) and B otherwise; C is the other side
IntersectionExpected(db, ia, ib) ==
    LET a_fine == r_max(db, ia) >= r_max(db, ib)
        F == IF a_fine THEN ia ELSE ib
        C == IF a_fine THEN ib ELSE ia
        r_join == r_star(db, ia, ib)
        r_fine == Max({r_max(db, ia), r_max(db, ib)})
        kept == {f \in CellsOf(db, F) :
                    cell_to_parent(f, r_join) \in Star(db, C, r_join)}
    IN  UNION {cell_to_children(f, r_fine) : f \in kept}

\* C10: for non-empty A and B, intersection(A, B) is the duplicate-free set of
\* the cells of the finer side F whose r_join-parent is the r_join-parent of a
\* cell of the coarser side, each expanded to its children at r_fine (F is A
\* when both sides have the same maximum resolution); for an empty A or B it is
\* the empty relation.
C10_IntersectionOfFinerSide ==
    FilterCall("intersection") =>
        IF arg_a.ids = {} \/ arg_b.ids = {}
        THEN ret = RetCells(EmptyBag)
        ELSE /\ ret.status = "ok"
             /\ \A c \in BagCells(ret.cells) : ret.cells[c] = 1
             /\ BagCells(ret.cells) = IntersectionExpected(features, arg_a.ids, arg_b.ids)

\* an intersection whose finer side B is partly kept and whose result is
\* expanded from a coarser row of B
C10_Witness ==
    /\ NonEmptyFilterCall("intersection")
    /\ r_max(features, arg_b.ids) > r_max(features, arg_a.ids)
    /\ r_min(features, arg_b.ids) < r_max(features, arg_b.ids)
    /\ BagCells(ret.cells) # {}
    /\ BagCells(ret.cells) # RefinedUnion(features, arg_b.ids)
    /\ ~(BagCells(ret.cells) \subseteq CellsOf(features, arg_b.ids))

\* ---- intersection symmetry and area (C11, C12)
\* C11: for all selections A and B, intersection(A, B) and intersection(B, A)
\* are the same cell set.
C11_IntersectionSymmetric ==
    FilterCall("intersection") =>
        BagCells(ret.cells) =
            BagCells(H3Engine_intersection(features, arg_b, arg_a).cells)

\* both sides have the same maximum resolution, A also has a coarser row, and
\* intersection(A, B) holds a cell that intersection(B, A) does not
C11_Reached ==
    /\ NonEmptyFilterCall("intersection")
    /\ r_max(features, arg_a.ids) = r_max(features, arg_b.ids)
    /\ r_min(features, arg_a.ids) < r_max(features, arg_a.ids)
    /\ BagCells(ret.cells) \
          BagCells(H3Engine_intersection(features, arg_b, arg_a).cells) # {}

AreaOfUnion(db, sel) == H3Engine_area(db, CellRel(H3Engine_union(db, sel).cells))

\* C12: for all selections A and B, area(intersection(A, B)) is non-negative
\* and at most min(area(union(A)), area(union(B))).
C12_IntersectionAreaBound ==
    FilterCall("intersection") =>
        LET ar == H3Engine_area(features, CellRel(ret.cells))
        IN  /\ ar >= 0
            /\ ar <= Min({AreaOfUnion(features, arg_a), AreaOfUnion(features, arg_b)})

\* an intersection whose area exceeds the area of union(B)
C12_Reached ==
    /\ NonEmptyFilterCall("intersection")
    /\ H3Engine_area(features, CellRel(ret.cells)) > AreaOfUnion(features, arg_b)

\* ---- adaptive planner (C13, C14, C15)
AdaptiveCall == conv.op = "polygon_to_h3_adaptive"

BoundedAdaptiveCall == AdaptiveCall /\ conv.min_resolution <= conv.max_resolution

\* the planner's answer for the polygon of the call and a target T, the
\* too-small sentinel counted as r_max
planner(T) ==
    polygon_to_h3_adaptive(conv.gdf[1], T, conv.min_resolution, conv.max_resolution)[2]

\* the area estimate of the call and the size of the polyfill at it
EstimateOfCall ==
    estimate_resolution_from_area(conv.gdf[1].area, conv.target_cells,
                                  conv.min_resolution, conv.max_resolution)

\* C13: for every polygon or multipolygon, T >= 1 and r_min <= r_max,
\* polygon_to_h3_adaptive returns a non-empty cell set and a resolution r in
\* [r_min, r_max], and every returned cell has resolution r.
C13_AdaptiveInRange ==
    BoundedAdaptiveCall =>
        /\ conv.h3_cells[1] # {}
        /\ conv.resolutions[1] \in conv.min_resolution..conv.max_resolution
        /\ \A c \in conv.h3_cells[1] : get_resolution(c) = conv.resolutions[1]

\* a multipolygon corrected one step finer, where no part covers a cell: the
\* result is the centroid cells of its parts
C13_Witness ==
    /\ BoundedAdaptiveCall
    /\ conv.gdf[1].type = "MultiPolygon"
    /\ conv.resolutions[1] = EstimateOfCall + 1
    /\ polygon_to_h3_cells(conv.gdf[1], conv.resolutions[1]) = {}
    /\ Cardinality(conv.h3_cells[1]) = 2

C15_AdaptiveMonotone ==
    AdaptiveCall =>
        \A T2 \in Targets :
            conv.target_cells <= T2 => conv.resolutions[1] <= planner(T2)

\* a corrected answer for T1 that is strictly coarser than the answer for a
\* larger target
C15_Witness ==
    /\ BoundedAdaptiveCall
    /\ conv.resolutions[1] = EstimateOfCall + 1
    /\ \E T2 \in Targets : conv.target_cells < T2 /\ conv.resolutions[1] < planner(T2)

\* ---- rows of a conversion run (C16, C19)
ConversionRun == conv.op = "run_conversion"

\* C16: every row a conversion run produces has h3_cell_count = |h3_cells| and
\* only cells of resolution h3_resolution; polygon and multipolygon rows have
\* the planned resolution (the estimate, corrected one step, within the
\* configured bounds) and all other rows max_resolution.
C16_RowInvariants ==
    (ConversionRun /\ conv.status = "ok") =>
        \A i \in DOMAIN conv.gdf :
            /\ conv.h3_cell_count[i] = Cardinality(conv.h3_cells[i])
            /\ \A c \in conv.h3_cells[i] : get_resolution(c) = conv.resolutions[i]
            /\ IF conv.gdf[i].type \in PolygonTypes
               THEN LET e == estimate_resolution_from_area(conv.gdf[i].area,
                                 conv.target_cells, conv.min_resolution, conv.max_resolution)
                    IN  /\ conv.resolutions[i] \in {e, e + 1}
                        /\ conv.resolutions[i] \in conv.min_resolution..conv.max_resolution
               ELSE conv.resolutions[i] = conv.max_resolution

\* a run over a polygon row and a line row that end at different resolutions
C16_Witness ==
    /\ ConversionRun /\ conv.status = "ok"
    /\ Len(conv.gdf) = 2
    /\ conv.gdf[1].type = "Polygon" /\ conv.gdf[2].type = "LineString"
    /\ conv.resolutions[1] < conv.resolutions[2]
    /\ conv.h3_cell_count[1] = 1 /\ conv.h3_cell_count[2] = MaxCells

\* C19: when encoding one feature of a batch fails, the batch continues: the
\* run ends normally, the failed feature is omitted and every other feature
\* is converted.
C19_BatchContinues ==
    (ConversionRun /\ \E i \in DOMAIN conv.gdf : Unsupported(conv.gdf[i])) =>
        /\ conv.status = "ok"
        /\ Len(conv.h3_cells) =
              Cardinality({i \in DOMAIN conv.gdf : ~Unsupported(conv.gdf[i])})

\* a batch of a supported and an unsupported geometry: the run raises and no
\* row is converted
C19_Reached ==
    /\ ConversionRun
    /\ Len(conv.gdf) = 2
    /\ Unsupported(conv.gdf[1]) /\ ~Unsupported(conv.gdf[2])
    /\ conv.status = "raise"
    /\ conv.h3_cells = << >>

\* ---- ingest runs (C17, C18, C20)
\* the configuration surface: a non-empty list of existing input files, an
\* output path, target_cells >= 1, both resolutions in the valid range with
\* min <= max, and one of the four containment modes
Conforming(c) ==
    /\ c.input_files # {}
    /\ c.input_files \subseteq ExistingFiles
    /\ c.output_file # ""
    /\ c.target_cells >= 1
    /\ c.min_resolution \in Resolutions
    /\ c.max_resolution \in Resolutions
    /\ c.min_resolution <= c.max_resolution
    /\ c.containment_mode \in VALID_CONTAINMENT_MODES

\* the run is over: it returned or an exception left it
RunOver == pc \in {"done", "failed"}

\* the rows are read and every geometry has an encoder
LoadedSupported ==
    /\ loaded # << >>
    /\ \A i \in DOMAIN loaded : ~Unsupported(loaded[i])

\* the cell sets computed for the loaded geometries, by feature_id - 1
ExpectedRows ==
    convert_geodataframe_to_h3_adaptive(loaded, config.target_cells,
        config.min_resolution, config.max_resolution).h3_cells

\* C17: after run_unified_conversion on n input geometries with a valid
\* configuration, the features table has n rows and row i holds the cells
\* computed for geometry i.
C17_IngestRoundTrip ==
    (RunOver /\ Conforming(config) /\ LoadedSupported) =>
        /\ disk.now.exists
        /\ Len(disk.now.rows) = Len(loaded)
        /\ disk.now.rows = ExpectedRows

\* a run with a valid configuration and two supported geometries has ended in
\* convert_to_h3 and the output path holds no database
C17_Reached ==
    /\ pc = "failed"
    /\ Conforming(config)
    /\ LoadedSupported /\ Len(loaded) = 2
    /\ ~disk.now.exists

\* C18: at every point of an ingest run the output path holds a complete
\* features table, the previous one or the fully built new one, when one
\* existed before the run.
C18_AtomicRebuild ==
    disk.before.exists =>
        /\ disk.now.exists
        /\ \/ disk.now = disk.before
           \/ (LoadedSupported /\ disk.now.rows = ExpectedRows)

\* the input files could not be read: the run has failed and the database
\* that was at the output path is gone
C18_Reached ==
    /\ pc = "failed"
    /\ loaded = << >>
    /\ disk.before = OldDatabase
    /\ disk.now = NoDatabase

\* C20: validate_config stops the run exactly for the configurations that
\* violate a constraint of the configuration surface, before any side effect.
C20_ValidationComplete ==
    /\ pc = "exit" => (~Conforming(config) /\ errors # {} /\ disk.now = disk.before)
    /\ pc \notin {"main", "exit"} => Conforming(config)

\* a configuration with target_cells < 1 and max_resolution beyond the valid
\* range passed validation, and the run has deleted the existing database
C20_Reached ==
    /\ pc = "load_and_merge_geodata"
    /\ errors = {}
    /\ config.target_cells < 1
    /\ config.max_resolution \notin Resolutions
    /\ disk.before = OldDatabase /\ disk.now = NoDatabase

\* ---- encoder and planner details (C21, C23, C24)
FixedCall == conv.op = "polygon_to_h3"

C23_EmptyEstimateIsSentinel ==
    (BoundedAdaptiveCall /\ polygon_to_h3_cells(conv.gdf[1], EstimateOfCall) = {}) =>
        /\ calculate_optimal_resolution(conv.gdf[1], conv.target_cells,
               conv.min_resolution, conv.max_resolution) = None
        /\ conv.resolutions[1] = conv.max_resolution
        /\ conv.h3_cells[1] = {cell_to_parent(Centroid(conv.gdf[1]), conv.max_resolution)}

\* the polyfill at the estimate is empty and the estimate is below r_max - 1:
\* the answer is at the next resolution, not at r_max
C23_Reached ==
    /\ BoundedAdaptiveCall
    /\ polygon_to_h3_cells(conv.gdf[1], EstimateOfCall) = {}
    /\ EstimateOfCall + 1 < conv.max_resolution
    /\ conv.resolutions[1] = EstimateOfCall + 1

EstimateCall == conv.op = "estimate_resolution_from_area"

FinerSide == IF r_max(features, arg_a.ids) >= r_max(features, arg_b.ids)
             THEN arg_a ELSE arg_b

\* C28: for non-empty selections A and B every cell returned by
\* intersection(A, B) has resolution r_fine = max(r_max(A), r_max(B)), appears
\* once, and is a member of union(F), F being A when r_max(A) >= r_max(B) and
\* B otherwise.
C28_IntersectionShape ==
    NonEmptyFilterCall("intersection") =>
        LET r_fine == Max({r_max(features, arg_a.ids), r_max(features, arg_b.ids)})
            union_f == BagCells(H3Engine_union(features, FinerSide).cells)
        IN  /\ ret.status = "ok"
            /\ \A c \in BagCells(ret.cells) :
                  /\ get_resolution(c) = r_fine
                  /\ ret.cells[c] = 1
                  /\ c \in union_f

\* B is the finer side, the result is non-empty and leaves out a cell of union(B)
C28_Witness ==
    /\ NonEmptyFilterCall("intersection")
    /\ r_max(features, arg_a.ids) < r_max(features, arg_b.ids)
    /\ BagCells(ret.cells) # {}
    /\ BagCells(ret.cells) # BagCells(H3Engine_union(features, arg_b).cells)

\* the cells and the resolution argument of the h3_cell_to_parent calls of a
\* predicate or of intersection(): both sides are unnested and mapped to target_res
ParentCalls(target_res) ==
    {<<c, target_res>> : c \in CellsOf(features, arg_a.ids) \cup CellsOf(features, arg_b.ids)}

\* the h3_cell_to_children calls of union(): the cells of the rows WHERE
\* h3_resolution < max_res, expanded to max_res
UnionChildrenCalls(ids) ==
    LET max_res == get_resolution_range(features, to_table_expr(FilterSel(ids)))[2]
    IN  {<<c, max_res>> : c \in CellsOf(features, union_coarse_rows(features, ids, max_res))}

\* the h3_cell_to_children calls of intersection(): the cells of the finer
\* side's rows WHERE res < finest_res, expanded to finest_res
IntersectionChildrenCalls ==
    LET finest_res == Max({r_max(features, arg_a.ids), r_max(features, arg_b.ids)})
    IN  {<<c, finest_res>> :
            c \in CellsOf(features, {i \in FinerSide.ids :
                                        features[i].h3_resolution < finest_res})}

\* C27: every h3_cell_to_parent(c, target_res) evaluated by intersects, within
\* and intersection has target_res <= resolution_of(c), and every
\* h3_cell_to_children(c, res) evaluated by union and intersection has
\* res > resolution_of(c).
C27_ParentPrecondition ==
    /\ NonEmptyFilterCall("intersects") =>
          \A k \in ParentCalls(intersects_target_res(r_min(features, arg_a.ids),
                                                     r_min(features, arg_b.ids))) :
              ~H3ResMismatch(k[1], k[2])
    /\ NonEmptyFilterCall("within") =>
          \A k \in ParentCalls(within_target_res(r_min(features, arg_a.ids),
                                                 r_min(features, arg_b.ids))) :
              ~H3ResMismatch(k[1], k[2])
    /\ NonEmptyFilterCall("intersection") =>
          /\ \A k \in ParentCalls(intersection_target_res(r_min(features, arg_a.ids),
                                                          r_min(features, arg_b.ids))) :
                ~H3ResMismatch(k[1], k[2])
          /\ \A k \in IntersectionChildrenCalls : k[2] > get_resolution(k[1])
    /\ (op = "union" /\ arg_a.kind = "filter" /\ arg_a.ids # {}) =>
          \A k \in UnionChildrenCalls(arg_a.ids) : k[2] > get_resolution(k[1])

\* an intersection over rows of different resolutions that maps finer cells to
\* parents and expands a coarser row of the finer side to children
C27_Witness ==
    /\ NonEmptyFilterCall("intersection")
    /\ r_min(features, arg_a.ids) < r_min(features, arg_b.ids)
    /\ IntersectionChildrenCalls # {}
    /\ CellsOf(features, arg_b.ids) # {}
    /\ BagCells(ret.cells) # {}

\* ------------------------------------------------ predicate library on sets
\* the cell sets a caller of the library can pass: any cells, of any resolutions
CellSets == {s \in SUBSET AllCells : Cardinality(s) <= MaxCells}

RawCells(cells) == [kind |-> "rawcells", ids |-> {}, cells |-> [c \in cells |-> 1]]

LibraryInit ==
    /\ conv = ConvIdle
    /\ srv = SrvIdle
    /\ IngestIdle
    /\ features = NoFeatures
    /\ EngineIdle

PredicateCall(name, ca, cb, fa, fb, r) ==
    /\ op = "init"
    /\ op' = name
    /\ arg_a' = RawCells(ca)
    /\ arg_b' = RawCells(cb)
    /\ first_a' = fa
    /\ first_b' = fb
    /\ ret' = r
    /\ UNCHANGED <<features, conv, srv, ingest_vars, views>>

PredicatesIntersects ==
    \E ca \in CellSets, cb \in CellSets :
        \E fa \in Firsts(ca), fb \in Firsts(cb) :
            PredicateCall("lib_intersects", ca, cb, fa, fb,
                          predicates_intersects(ca, cb, fa, fb))

PredicatesWithin ==
    \E ca \in CellSets, cb \in CellSets :
        \E fa \in Firsts(ca), fb \in Firsts(cb) :
            PredicateCall("lib_within", ca, cb, fa, fb,
                          predicates_within(ca, cb, fa, fb))

PredicatesContains ==
    \E ca \in CellSets, cb \in CellSets :
        \E fa \in Firsts(ca), fb \in Firsts(cb) :
            PredicateCall("lib_contains", ca, cb, fa, fb,
                          predicates_contains(ca, cb, fa, fb))

PredicatesTouches ==
    \E ca \in CellSets, cb \in CellSets :
        \E fa \in Firsts(ca), fb \in Firsts(cb) :
            PredicateCall("lib_touches", ca, cb, fa, fb,
                          predicates_touches(ca, cb, fa, fb))

LibraryNext ==
    \/ PredicatesIntersects
    \/ PredicatesWithin
    \/ PredicatesContains
    \/ PredicatesTouches
    \/ Return

LibrarySpec == LibraryInit /\ [][LibraryNext]_vars

RawCall == op \in LibOps /\ arg_a.kind = "rawcells"

\* a cell whose resolution differs from that of the set's sampled first cell
OddCells(cells, first) == {c \in cells : get_resolution(c) # first}

\* C26: when a cell set of the library holds a cell whose resolution differs
\* from that of the set's sampled first cell, the predicate still returns a
\* boolean; no predicate raises because of it.
C26_OddCellNeverRaises ==
    (/\ RawCall
     /\ BagCells(arg_a.cells) # {} /\ BagCells(arg_b.cells) # {}
     /\ \/ OddCells(BagCells(arg_a.cells), first_a) # {}
        \/ OddCells(BagCells(arg_b.cells), first_b) # {})
        => ret.status = "ok"

\* within over a cells_a that mixes resolutions, its first cell finer than
\* cells_b: mapping the coarser cell of cells_a to target_res raises
C26_Reached ==
    /\ RawCall /\ op = "lib_within"
    /\ BagCells(arg_b.cells) # {}
    /\ first_a > first_b
    /\ \E c \in OddCells(BagCells(arg_a.cells), first_a) :
          get_resolution(c) < first_b
    /\ ret = Raise

EngineOps == {"intersects", "within", "contains", "intersection", "union"}

\* C25: after an engine operation returns or raises, every view _h3_tmp_* the
\* call registered for a relation argument has been unregistered: the set of
\* registered temporary views is the same as before the call.
C25_ViewsReleased ==
    [][(op = "init" /\ op' \in EngineOps) => views' = views]_vars

\* union() of a relation has ended and the view it registered is still there
C25_Reached ==
    /\ op = "union"
    /\ arg_a.kind = "cells"
    /\ ret.status # "none"
    /\ view_name(arg_a) \in views

\* ------------------------------------------------- tile server: the program
\* str(uuid.uuid4())[:8]
SessionIds == 1..NumSessionIds

\* the filter texts an end user sends as query A
FilterStrings ==
    {NoQuery, <<"a=1">>, <<"a=1", ";">>, <<";", "DROP">>, <<"--">>, <<"/*">>,
     <<"UNION", "SELECT">>, <<"INTO", "OUTFILE">>, <<"LOAD_FILE">>,
     <<"BENCHMARK">>, <<"SLEEP", "(">>}

\* and as query B
QueryBStrings == {NoQuery, <<"--">>}

Operations == {"none", "union"}

RequestedLayers == {"a", "geom_a", "tiles"}

Tiles == {<<0, 0, 0>>}

ServerInit ==
    /\ srv = SrvIdle
    /\ conv = ConvIdle
    /\ IngestIdle
    /\ features = NoFeatures
    /\ EngineIdle

RegisterQuery ==
    \E query_a \in FilterStrings, query_b \in QueryBStrings, operation \in Operations,
       session_id \in SessionIds :
        /\ srv' = register_query(srv, query_a, query_b, operation, session_id)
        /\ UNCHANGED <<engine_vars, conv, ingest_vars>>

GetTile ==
    \E layer \in RequestedLayers, tile \in Tiles, session \in SessionIds :
        /\ srv' = get_tile(srv, layer, tile, session)
        /\ UNCHANGED <<engine_vars, conv, ingest_vars>>

\* the texts typed into the dashboard's query fields
AppStrings == {NoQuery, <<"--">>}

RunSpatialOperation ==
    \E query_a \in AppStrings, query_b \in AppStrings :
        /\ srv' = run_spatial_operation(srv, query_a, query_b)
        /\ UNCHANGED <<engine_vars, conv, ingest_vars>>

\* time.time() advances
Tick ==
    /\ srv.now < MaxTime
    /\ srv' = [srv EXCEPT !.now = @ + 1]
    /\ UNCHANGED <<engine_vars, conv, ingest_vars>>

ServerNext ==
    \/ RegisterQuery
    \/ GetTile
    \/ RunSpatialOperation
    \/ Tick

ServerSpec == ServerInit /\ [][ServerNext]_vars

\* what the specification's deny-list names: any ";", a comment marker,
\* UNION SELECT, INTO OUTFILE, LOAD_FILE, BENCHMARK, SLEEP
DenyList ==
    {<<";">>, <<"--">>, <<"/*">>, <<"UNION", "SELECT">>, <<"INTO", "OUTFILE">>,
     <<"LOAD_FILE">>, <<"BENCHMARK">>, <<"SLEEP">>}

OnDenyList(w) == \E p \in DenyList : Occurs(p, w)

\* C22: a filter string from an end user that contains ";", "--", "/*",
\* UNION SELECT, INTO OUTFILE, LOAD_FILE, BENCHMARK or SLEEP is rejected by the
\* boundary layer and never reaches an engine query.
C22_DenyListKeepsOut ==
    \A w \in srv.engine_sql : ~OnDenyList(w)

\* POST /query has accepted a filter with a ";" and the engine has been handed it
C22_Reached ==
    /\ srv.status = 200
    /\ \E sid \in DOMAIN srv.sessions :
          /\ Occurs(<<";">>, srv.sessions[sid].query_a)
          /\ srv.sessions[sid].query_a \in srv.engine_sql

OrderKeys(order) == {order[i] : i \in DOMAIN order}

\* the shape of the cache: bounded, and listed by the order exactly once each
CacheShape ==
    /\ Cardinality(srv.tile_cache) <= TILE_CACHE_SIZE
    /\ OrderKeys(srv.tile_cache_order) = srv.tile_cache
    /\ Len(srv.tile_cache_order) = Cardinality(srv.tile_cache)

\* a set on a full cache drops the head of the order and appends the new key
EvictsHead ==
    \A k \in srv'.tile_cache \ srv.tile_cache :
        Cardinality(srv.tile_cache) = TILE_CACHE_SIZE =>
            /\ srv'.tile_cache = (srv.tile_cache \ {Head(srv.tile_cache_order)}) \cup {k}
            /\ srv'.tile_cache_order = Append(Tail(srv.tile_cache_order), k)

\* a hit moves its key to the end of the order
HitMovesToEnd ==
    (srv'.tile_cache = srv.tile_cache /\ srv'.tile_cache_order # srv.tile_cache_order) =>
        \E k \in srv.tile_cache :
            srv'.tile_cache_order =
                Append(SelectSeq(srv.tile_cache_order, LAMBDA x : x # k), k)

\* C29: the tile cache holds at most TILE_CACHE_SIZE entries and the LRU order
\* lists each cached key exactly once and no other key; a hit moves its key to
\* the end of the order, and a set on a full cache evicts the key at the head
\* of the order, the least recently used one.
C29_CacheBoundedLru ==
    []CacheShape /\ [][EvictsHead /\ HitMovesToEnd]_vars

\* get_tile has filled a full cache and evicted a tile of a live session
C29_Witness ==
    /\ srv.evicted # NoKey
    /\ srv.evicted[1] \in DOMAIN srv.sessions
    /\ Cardinality(srv.tile_cache) = TILE_CACHE_SIZE
    /\ srv.evicted \notin srv.tile_cache

\* C30: every key of the tile cache, and every session table registered on the
\* engine, belongs to a session id present in sessions: removing an expired
\* session removes its cached tiles and unregisters its tables.
C30_SessionCacheConsistent ==
    /\ \A k \in srv.tile_cache : k[1] \in DOMAIN srv.sessions
    /\ \A k \in OrderKeys(srv.tile_cache_order) : k[1] \in DOMAIN srv.sessions
    /\ \A t \in srv.tables : t[1] \in DOMAIN srv.sessions

\* the cleanup of register_query has removed an expired session that had cached
\* tiles and a registered table, and a new session has been registered
C30_Witness ==
    /\ srv.cleared # {}
    /\ srv.unregistered # {}
    /\ \A k \in srv.cleared : k[1] \notin DOMAIN srv.sessions
    /\ srv.status = 200
    /\ srv.tables # {}

====
